---- MODULE Spec2Model ----
(***************************************************************************)
(* Model of the package container of terror/media: the writer              *)
(* Package::save, the loader Package::load and the resolver Package::file  *)
(* (src/src/package.rs), with the callers that feed them                   *)
(* (src/src/template.rs, src/src/subcommand/package.rs).                   *)
(*                                                                         *)
(* A file is a sequence of bytes (0..255).  Hashes are 32-byte sequences,  *)
(* compared as Rust compares [u8; 32]: lexicographically.  usize is taken  *)
(* to be 64 bits wide, so usize::try_from(u64) never fails.                *)
(***************************************************************************)
EXTENDS Integers, Sequences, FiniteSets, TLC

\* ------------------------------------------------------------------------
\* Bounds of the model
\* ------------------------------------------------------------------------

\* Longest source file content, in bytes.
MaxBlobLen == 1

\* Most index entries of a crafted package file.
MaxEntries == 2

\* Most bytes appended after the last declared blob of a crafted file.
MaxTrail == 2

\* ------------------------------------------------------------------------
\* Program constants
\* ------------------------------------------------------------------------

\* The marker without its final NUL: 9 bytes.
MagicWithoutNul == <<77, 69, 68, 73, 65, 240, 159, 147, 166>>

\* Package::MAGIC_BYTES = "MEDIA\u{1F4E6}\0" as UTF-8: 5 + 4 + 1 bytes.
MAGIC_BYTES == <<77, 69, 68, 73, 65, 240, 159, 147, 166, 0>>

\* Width of a u64 field and of a blake3 hash, in bytes.
U64Len == 8
HashLen == 32

\* ------------------------------------------------------------------------
\* Byte sequences
\* ------------------------------------------------------------------------

Min(a, b) == IF a <= b THEN a ELSE b

Take(s, n) == SubSeq(s, 1, Min(n, Len(s)))

Drop(s, n) == SubSeq(s, n + 1, Len(s))

RECURSIVE Flatten(_)
Flatten(ss) == IF ss = <<>> THEN <<>> ELSE Head(ss) \o Flatten(Tail(ss))

\* Slice comparison of &[u8] (Ord for slices): the first differing byte
\* decides, and a proper prefix is smaller.
LexLess(a, b) ==
  \E i \in 1..(Min(Len(a), Len(b)) + 1) :
    /\ \A j \in 1..(i - 1) : a[j] = b[j]
    /\ \/ i > Len(a) /\ i <= Len(b)
       \/ i <= Len(a) /\ i <= Len(b) /\ a[i] < b[i]

\* ------------------------------------------------------------------------
\* Binary codec: little-endian u64, raw 32-byte hash
\* ------------------------------------------------------------------------

RECURSIVE LEBytes(_, _)
LEBytes(v, n) == IF n = 0 THEN <<>> ELSE <<v % 256>> \o LEBytes(v \div 256, n - 1)

\* write_u64: 8 bytes, least significant first.
U64Bytes(v) == LEBytes(v, U64Len)

RECURSIVE FromLE(_)
FromLE(bs) == IF bs = <<>> THEN 0 ELSE Head(bs) + 256 * FromLE(Tail(bs))

\* The integers of the model checker end below 2^31.  A u64 below 2^30 is
\* kept as the number it is.  One of 2^30 or more is kept as one of two
\* numbers, for what the program does with it depends on no more: HeldLimit
\* for a value up to isize::MAX (2^63 - 1), HeldLimit + 1 for a value above.
HeldLimit == 1073741824

Held(bs) ==
  /\ \A i \in 5..Len(bs) : bs[i] = 0
  /\ Len(bs) < 4 \/ bs[4] < 64

AboveIsizeMax(bs) == Len(bs) = U64Len /\ bs[U64Len] >= 128

\* u64::from_le_bytes.
U64Value(bs) ==
  IF Held(bs) THEN FromLE(bs)
  ELSE IF AboveIsizeMax(bs) THEN HeldLimit + 1
  ELSE HeldLimit

\* blake3::hash, abstracted: a tree digest (a chunk is one byte) spread over
\* 32 bytes.  It is injective on the byte sequences the model hashes
\* (HashInjectiveOn below), as blake3 is taken to be collision free; the first
\* byte is coarse so that comparisons have to look past it.
RECURSIVE TreeDigest(_, _, _)
TreeDigest(bs, lo, hi) ==
  IF lo = hi THEN (bs[lo] * 131 + 7) % 65521
  ELSE LET mid == (lo + hi) \div 2
       IN  (TreeDigest(bs, lo, mid) * 257 + TreeDigest(bs, mid + 1, hi) * 263
              + (hi - lo)) % 65521

Digest(bs) == IF Len(bs) = 0 THEN 5381 ELSE TreeDigest(bs, 1, Len(bs))

DigestBytes(d) ==
  [i \in 1..HashLen |->
     IF i = 1 THEN d % 4
     ELSE IF i = 2 THEN d \div 256
     ELSE IF i = 3 THEN d % 256
     ELSE 0]

Blake3(bs) == DigestBytes(Digest(bs))

HashInjectiveOn(S) == \A x, y \in S : Blake3(x) = Blake3(y) => x = y

\* Hashes the tests craft by hand: [0; 32] and [1; 32].
Zeros32 == [i \in 1..HashLen |-> 0]
Ones32 == [i \in 1..HashLen |-> 1]

\* ------------------------------------------------------------------------
\* Manifest: its two variants, its serialization and its consistency check
\* ------------------------------------------------------------------------

\* Type, the tag an App handles and a manifest has.
Types == {"App", "Comic"}

\* Manifest::App { handles, paths } and Manifest::Comic { pages }.  Paths are
\* UTF-8 strings, kept as byte sequences; paths is a BTreeMap<String, Hash>.
ManifestApp(handles, paths) ==
  [kind |-> "App", handles |-> handles, paths |-> paths, pages |-> <<>>]

ManifestComic(pages) ==
  [kind |-> "Comic", handles |-> "Comic", paths |-> <<>>, pages |-> pages]

\* Manifest::ty.
Ty(m) == m.kind

RangeOf(f) == {f[x] : x \in DOMAIN f}

\* The keys of a BTreeMap in iteration order: ascending by string bytes.
RECURSIVE SortedKeys(_)
SortedKeys(S) ==
  IF S = {} THEN <<>>
  ELSE LET least == CHOOSE x \in S : \A y \in S \ {x} : LexLess(x, y)
       IN  <<least>> \o SortedKeys(S \ {least})

TagApp == 161
TagComic == 162

TypeCode(t) == IF t = "App" THEN 0 ELSE 1

\* ciborium::into_writer(&manifest): a deterministic tagged encoding.  A map
\* is written in key order, a string with its length first, a hash as its 32
\* raw bytes.
SerializeManifest(m) ==
  IF m.kind = "App"
  THEN LET keys == SortedKeys(DOMAIN m.paths)
       IN  <<TagApp, TypeCode(m.handles), Len(keys)>>
             \o Flatten([i \in 1..Len(keys) |->
                           <<Len(keys[i])>> \o keys[i] \o m.paths[keys[i]]])
  ELSE <<TagComic, Len(m.pages)>> \o Flatten(m.pages)

DeFail == [ok |-> FALSE, manifest |-> ManifestComic(<<>>)]

RECURSIVE ParsePages(_, _)
ParsePages(bs, n) ==
  IF n = 0 THEN [ok |-> TRUE, val |-> <<>>]
  ELSE IF Len(bs) < HashLen THEN [ok |-> FALSE, val |-> <<>>]
  ELSE LET rest == ParsePages(Drop(bs, HashLen), n - 1)
       IN  [ok |-> rest.ok, val |-> <<Take(bs, HashLen)>> \o rest.val]

\* The (path, hash) pairs of an App, as a sequence of pairs.
RECURSIVE ParsePaths(_, _)
ParsePaths(bs, n) ==
  IF n = 0 THEN [ok |-> TRUE, val |-> <<>>]
  ELSE IF bs = <<>> \/ Len(bs) < 1 + bs[1] + HashLen THEN [ok |-> FALSE, val |-> <<>>]
  ELSE LET k == bs[1]
           path == SubSeq(bs, 2, 1 + k)
           hash == SubSeq(bs, 2 + k, 1 + k + HashLen)
           rest == ParsePaths(Drop(bs, 1 + k + HashLen), n - 1)
       IN  [ok |-> rest.ok, val |-> <<<<path, hash>>>> \o rest.val]

\* A map built from pairs by repeated insert: the last pair of a key wins.
MapOfPairs(ps) ==
  [k \in {ps[i][1] : i \in 1..Len(ps)} |->
     LET last == CHOOSE i \in 1..Len(ps) :
                   /\ ps[i][1] = k
                   /\ \A j \in (i + 1)..Len(ps) : ps[j][1] # k
     IN  ps[last][2]]

\* ciborium::from_reader on the manifest blob: the inverse of
\* SerializeManifest, failing on bytes that are not an encoded manifest.
DeserializeManifest(bs) ==
  IF bs = <<>> THEN DeFail
  ELSE IF bs[1] = TagApp
  THEN IF Len(bs) < 3 \/ bs[2] \notin {0, 1} THEN DeFail
       ELSE LET r == ParsePaths(Drop(bs, 3), bs[3])
            IN  IF ~r.ok THEN DeFail
                ELSE [ok |-> TRUE,
                      manifest |-> ManifestApp(IF bs[2] = 0 THEN "App" ELSE "Comic",
                                               MapOfPairs(r.val))]
  ELSE IF bs[1] = TagComic
  THEN IF Len(bs) < 2 THEN DeFail
       ELSE LET r == ParsePages(Drop(bs, 2), bs[2])
            IN  IF ~r.ok THEN DeFail
                ELSE [ok |-> TRUE, manifest |-> ManifestComic(r.val)]
  ELSE DeFail

\* The hashes a manifest refers to.
Referenced(m) ==
  IF m.kind = "App" THEN RangeOf(m.paths) ELSE RangeOf(m.pages)

Ok == [kind |-> "Ok", fields |-> <<>>]

Pending == [kind |-> "Pending", fields |-> <<>>]

Err(kind, fields) == [kind |-> kind, fields |-> fields]

\* A consistency check that only looks for files the manifest does not
\* refer to.
VerifyExtraOnly(m, manifest_hash, files) ==
  LET extra == Cardinality(DOMAIN files \ (Referenced(m) \cup {manifest_hash}))
  IN  IF extra # 0 THEN Err("ManifestExtraFiles", [extra |-> extra]) ELSE Ok

\* Manifest::verify(manifest_hash, &files): the package holds exactly the
\* manifest and the files the manifest refers to.
Verify(m, manifest_hash, files) ==
  LET expected == Referenced(m) \cup {manifest_hash}
      extra == Cardinality(DOMAIN files \ expected)
      missing == Cardinality(expected \ DOMAIN files)
  IN  IF extra # 0 THEN Err("ManifestExtraFiles", [extra |-> extra])
      ELSE IF missing # 0 THEN Err("ManifestMissingFiles", [missing |-> missing])
      ELSE Ok

\* Template::manifest: the manifest the package subcommand builds from the
\* hashed files.  template is [kind, handles, pages]: pages are paths.
TemplateManifest(template, hashes) ==
  IF template.kind = "App"
  THEN ManifestApp(template.handles, [p \in DOMAIN hashes |-> hashes[p].hash])
  ELSE ManifestComic([i \in 1..Len(template.pages) |-> hashes[template.pages[i]].hash])

\* ------------------------------------------------------------------------
\* State
\* ------------------------------------------------------------------------

VARIABLES
  root,           \* the files under the root directory: path -> content
  hashes,         \* save's input map: path -> [hash, len]
  order,          \* the order in which this HashMap iterates its keys
  manifest,       \* save's input manifest
  spc,            \* where save is: "start", "index", "blobs", "done" ("none": no save)
  sorted,         \* save's sorted Vec<(Hash, u64)>
  si,             \* save's position in sorted while it writes the blobs
  sres,           \* save's result
  disk,           \* the bytes of the package file
  present,        \* a file is at the package file's path
  lpc,            \* where load is
  pos,            \* load's stream position
  index,          \* load's manifest index
  hash_count,     \* load's entry count
  lhashes,        \* load's Vec<(Hash, u64)> of index entries
  manifest_hash,  \* load's manifest hash
  files,          \* load's HashMap<Hash, Vec<u8>>
  li,             \* load's position in lhashes while it reads the blobs
  lmanifest,      \* load's deserialized manifest
  lres,           \* load's result
  package,        \* the Package load returned
  lookup,         \* the last Package::file call: [path, result]
  outfail,        \* which operation on save's files fails, if any
  outcap,         \* the bytes the output takes when it is "full"
  srvpc,          \* where Server::run is
  app_file,       \* the file at self.app: [path, bytes]
  content_file,   \* the file at self.content: [path, bytes]
  app,            \* run's app Package
  content,        \* run's content Package
  srvres,         \* run's result
  serving,        \* the server was bound and took requests
  response        \* the last response of a route

inputVars == <<root, hashes, order, manifest, outfail, outcap>>

fileVars == <<disk, present>>

serverVars == <<srvpc, app_file, content_file, app, content, srvres, serving,
                response>>

saveVars == <<spc, sorted, si, sres>>

loadVars == <<lpc, pos, index, hash_count, lhashes, manifest_hash, files, li,
              lmanifest, lres, package>>

vars == <<root, hashes, order, manifest, spc, sorted, si, sres, disk, present, lpc, pos,
          index, hash_count, lhashes, manifest_hash, files, li, lmanifest, lres,
          package, lookup, outfail, outcap, srvpc, app_file, content_file, app, content, srvres,
          serving, response>>

\* ------------------------------------------------------------------------
\* Package::save
\* ------------------------------------------------------------------------

Entry(hash, len) == [hash |-> hash, len |-> len]

\* hashes.iter().map(|(path, (hash, _))| (*hash, path)).collect::<HashMap>():
\* of the paths with one hash, the one iterated last stays.
PathsByHash(hs, ord) ==
  [h \in {hs[p].hash : p \in DOMAIN hs} |->
     LET last == CHOOSE i \in 1..Len(ord) :
                   /\ hs[ord[i]].hash = h
                   /\ \A j \in (i + 1)..Len(ord) : hs[ord[j]].hash # h
     IN  ord[last]]

\* hashes.values().copied().collect::<Vec>(): one pair per path, in
\* iteration order.
HashesVec(hs, ord) == [i \in 1..Len(ord) |-> hs[ord[i]]]

\* The Vec left in iteration order.
Unsorted(v) == v

\* One step of the stable sort by key: e goes after every element whose key
\* is not greater.
RECURSIVE InsertByKey(_, _)
InsertByKey(v, e) ==
  IF v = <<>> THEN <<e>>
  ELSE IF LexLess(e.hash, Head(v).hash) THEN <<e>> \o v
  ELSE <<Head(v)>> \o InsertByKey(Tail(v), e)

\* hashes.sort_by_key(|hash| *hash.0.as_bytes()): stable, ascending by the
\* 32 hash bytes.
RECURSIVE SortByKey(_)
SortByKey(v) ==
  IF v = <<>> THEN <<>>
  ELSE InsertByKey(SortByKey(SubSeq(v, 1, Len(v) - 1)), v[Len(v)])

\* The index table save writes: the caller's pairs, then the manifest's,
\* sorted.
SaveTable(hs, ord, m) ==
  LET bytes == SerializeManifest(m)
  IN  SortByKey(Append(HashesVec(hs, ord), Entry(Blake3(bytes), Len(bytes))))

\* A writer that always records index 0.
PositionZero(v, h) == 0

\* hashes.iter().position(|(hash, _)| *hash == manifest_hash).unwrap()
Position(v, h) == (CHOOSE i \in 1..Len(v) : v[i].hash = h /\ \A j \in 1..(i - 1) : v[j].hash # h) - 1

EntryBytes(e) == e.hash \o U64Bytes(e.len)

\* Lines 194-228: the magic is written at create, then the header and table.
SaveHeader(v, m) ==
  U64Bytes(Position(v, Blake3(SerializeManifest(m))))
    \o U64Bytes(Len(v))
    \o Flatten([i \in 1..Len(v) |-> EntryBytes(v[i])])

\* What can go wrong with save's files: nothing; File::create of the
\* output fails; a source file opens and cannot be read; the output is
\* under a file size limit of outcap bytes (0: a device that takes none).
OutFailures == {"none", "create", "copy", "full"}

\* The kinds of io::Error File::create returns: the directory of the output
\* is not there, the output path is a directory, it may not be written.
CreateErrorKinds == {"NotFound", "IsADirectory", "PermissionDenied"}

\* The output cannot take these bytes: a write that ends past the limit
\* fails.
Full(bytes) == outfail = "full" /\ Len(bytes) > outcap

\* io::copy of a source into the output that holds these bytes fails when
\* the bytes it first writes out end past the limit, and when a source that
\* is not empty ends past the limit or at it: such a copy goes on until a
\* call copies nothing, and a call at the limit is refused. An empty source
\* is copied without a call on the output.
CopyRefused(held, source) ==
  /\ outfail = "full"
  /\ IF source = <<>> THEN Len(held) > outcap
                      ELSE Len(held \o source) >= outcap

\* What the output file holds of the bytes written to it: all of them, or
\* the part written before it was full.
Reached(bytes) == IF Full(bytes) THEN Take(bytes, outcap) ELSE bytes

\* Line 243 and every early return: the BufWriter goes out of scope, Drop
\* writes what is buffered and ignores the outcome.  While save runs, disk
\* is the bytes written to the BufWriter, in the file or still buffered (a
\* package here is smaller than the buffer); from the drop on it is the
\* file.
WriterDrop(bytes) == Reached(bytes)

\* Line 192: File::create(output)?; line 194: write_all(MAGIC_BYTES), into
\* the buffer.
SaveCreate ==
  /\ spc = "start"
  /\ IF outfail = "create"
     THEN /\ \E k \in CreateErrorKinds : sres' = Err("Io", [kind |-> k])
          /\ spc' = "done"
          /\ UNCHANGED <<disk, present>>
     ELSE /\ disk' = MAGIC_BYTES
          /\ present' = TRUE
          /\ spc' = "index"
          /\ UNCHANGED sres
  /\ UNCHANGED <<serverVars, inputVars, sorted, si, loadVars, lookup>>

\* Lines 196-228: build and sort the index, write the header and the table.
SaveIndex ==
  /\ spc = "index"
  /\ sorted' = SaveTable(hashes, order, manifest)
  /\ disk' = disk \o SaveHeader(sorted', manifest)
  /\ si' = 1
  /\ spc' = "blobs"
  /\ UNCHANGED <<serverVars, inputVars, present, sres, loadVars, lookup>>

\* The path save reads the blob of a non-manifest entry from.
BlobPath(hs, ord, e) == PathsByHash(hs, ord)[e.hash]

\* Lines 231-239: what is written for one entry: the manifest's bytes for
\* its entry, the whole source file (io::copy) for any other.
BlobBytes(hs, ord, m, rt, e) ==
  LET bytes == SerializeManifest(m)
  IN  IF e.hash = Blake3(bytes) THEN bytes ELSE rt[BlobPath(hs, ord, e)]

\* Lines 230-240, one turn of the loop.  The manifest's bytes go into the
\* buffer.  For any other entry the source file is opened (FileIo) and
\* copied: io::copy first writes out what the BufWriter holds, then copies
\* from file to file until nothing is left, and a failure of either, or of
\* reading the source, is IoCopy with the source's path.
SaveBlob ==
  /\ spc = "blobs"
  /\ si <= Len(sorted)
  /\ LET e == sorted[si]
         own == e.hash = Blake3(SerializeManifest(manifest))
     IN  IF ~own /\ BlobPath(hashes, order, e) \notin DOMAIN root
         THEN /\ sres' = Err("FileIo", [path |-> BlobPath(hashes, order, e)])
              /\ spc' = "done"
              /\ disk' = WriterDrop(disk)
              /\ UNCHANGED si
         ELSE IF ~own /\ outfail = "copy"
         THEN /\ sres' = Err("IoCopy", [path |-> BlobPath(hashes, order, e)])
              /\ spc' = "done"
              /\ disk' = WriterDrop(disk)
              /\ UNCHANGED si
         ELSE IF ~own /\ CopyRefused(disk, BlobBytes(hashes, order, manifest, root, e))
         THEN /\ sres' = Err("IoCopy", [path |-> BlobPath(hashes, order, e)])
              /\ spc' = "done"
              /\ disk' = WriterDrop(disk \o BlobBytes(hashes, order, manifest, root, e))
              /\ UNCHANGED si
         ELSE /\ disk' = disk \o BlobBytes(hashes, order, manifest, root, e)
              /\ si' = si + 1
              /\ UNCHANGED <<spc, sres>>
  /\ UNCHANGED <<serverVars, inputVars, present, sorted, loadVars, lookup>>

\* Lines 242-243: Ok(()), and the BufWriter is dropped.
SaveReturn ==
  /\ spc = "blobs"
  /\ si > Len(sorted)
  /\ sres' = Ok
  /\ disk' = WriterDrop(disk)
  /\ spc' = "done"
  /\ UNCHANGED <<serverVars, inputVars, present, sorted, si, loadVars, lookup>>

\* The blobs save writes from entry i on, and how the loop ends.
RECURSIVE SaveBlobsFrom(_, _, _, _, _, _)
SaveBlobsFrom(hs, ord, m, rt, v, i) ==
  IF i > Len(v) THEN [res |-> Ok, bytes |-> <<>>]
  ELSE IF /\ v[i].hash # Blake3(SerializeManifest(m))
          /\ BlobPath(hs, ord, v[i]) \notin DOMAIN rt
  THEN [res |-> Err("FileIo", [path |-> BlobPath(hs, ord, v[i])]), bytes |-> <<>>]
  ELSE LET rest == SaveBlobsFrom(hs, ord, m, rt, v, i + 1)
       IN  [res |-> rest.res, bytes |-> BlobBytes(hs, ord, m, rt, v[i]) \o rest.bytes]

\* Package::save as a whole: its result and the file it leaves.
SaveRun(hs, ord, m, rt) ==
  LET v == SaveTable(hs, ord, m)
      blobs == SaveBlobsFrom(hs, ord, m, rt, v, 1)
  IN  [res |-> blobs.res, bytes |-> MAGIC_BYTES \o SaveHeader(v, m) \o blobs.bytes]

\* ------------------------------------------------------------------------
\* Package::load
\* ------------------------------------------------------------------------

Zeros(n) == [i \in 1..n |-> 0]

\* Lines 103-114: fill the zeroed marker buffer until it is full or the
\* file ends.
ReadMagic(file) ==
  LET read == Min(Len(file), Len(MAGIC_BYTES))
  IN  [read |-> read, bytes |-> Take(file, read) \o Zeros(Len(MAGIC_BYTES) - read)]

\* Lines 116-121: ensure!(bytes == MAGIC_BYTES, MagicBytes { bytes[..read] }).
MagicAccepted(m) == m.bytes = MAGIC_BYTES

\* A read that fills what the file lacks with zeros.
ReadExactPadded(file, p, n) ==
  LET have == Take(Drop(file, p), n)
  IN  [ok |-> TRUE, bytes |-> have \o Zeros(n - Len(have))]

\* read_exact of n bytes at position p.
ReadExact(file, p, n) ==
  IF p + n <= Len(file)
  THEN [ok |-> TRUE, bytes |-> SubSeq(file, p + 1, p + n)]
  ELSE [ok |-> FALSE, bytes |-> <<>>]

\* read_u64 and read_hash.
ReadU64(file, p) ==
  LET r == ReadExact(file, p, U64Len)
  IN  [ok |-> r.ok, val |-> U64Value(r.bytes)]

ReadHash(file, p) == ReadExact(file, p, HashLen)

UnexpectedEof == Err("Io", [kind |-> "UnexpectedEof"])

\* File::open of a path where no file is.
NotFound == Err("Io", [kind |-> "NotFound"])

\* Line 158, vec![0; len as usize]: a length above isize::MAX panics, and
\* load returns nothing.
CapacityOverflow == Err("Panic", [message |-> "capacity overflow"])

\* Line 158: the allocator refuses the length and the process aborts.
AllocationFailed == Err("Abort", [message |-> "memory allocation failed"])

\* load did not return: it panicked or the process was aborted.
Unwound(res) == res.kind \in {"Panic", "Abort"}

\* Only the first of the two checks.
EntryCheckOrderOnly(v, hash) ==
  IF v = <<>> THEN Ok
  ELSE IF LexLess(hash, v[Len(v)].hash) THEN Err("FileHashOrder", [hash |-> hash])
  ELSE Ok

\* Lines 137-145: the checks of an entry against the one before it.
EntryCheck(v, hash) ==
  IF v = <<>> THEN Ok
  ELSE LET last == v[Len(v)].hash
       IN  IF LexLess(hash, last) THEN Err("FileHashOrder", [hash |-> hash])
           ELSE IF hash = last THEN Err("FileHashDuplicated", [hash |-> hash])
           ELSE Ok

\* A loader that takes the bytes without hashing them.
BlobCheckSkipped(expected, bytes) == Ok

\* Lines 162-164: the bytes read must hash to the declared hash.
BlobCheck(expected, bytes) ==
  LET actual == Blake3(bytes)
  IN  IF actual = expected THEN Ok
      ELSE Err("FileHashInvalid", [expected |-> expected, actual |-> actual])

\* A lookup that ignores the index and takes the first entry.
GetEntryFirst(v, i) ==
  IF v # <<>> THEN [some |-> TRUE, entry |-> v[1]]
  ELSE [some |-> FALSE, entry |-> Entry(Zeros32, 0)]

\* Lines 150-153: hashes.get(index).
GetEntry(v, i) ==
  IF i < Len(v) THEN [some |-> TRUE, entry |-> v[i + 1]]
  ELSE [some |-> FALSE, entry |-> Entry(Zeros32, 0)]

\* A check that only refuses an offset past the end of the file.
TrailingCheckAtMost(position, len) ==
  IF position <= len THEN Ok
  ELSE Err("TrailingBytes", [trailing |-> 0])

\* Lines 171-176: ensure!(position == len, TrailingBytes { len - position }).
TrailingCheck(position, len) ==
  IF position = len THEN Ok
  ELSE Err("TrailingBytes", [trailing |-> IF len >= position THEN len - position ELSE 0])

\* files.insert(expected, buffer)
Insert(map, k, v) == [x \in DOMAIN map \cup {k} |-> IF x = k THEN v ELSE map[x]]

Fail(e) ==
  /\ lres' = e
  /\ lpc' = "done"

\* Load reads the file save wrote, or a file that was put there.
LoadMay == (spc = "done" /\ sres = Ok) \/ spc = "none"

\* Lines 97-121: open, take the length, read and check the magic marker.
LoadMagic ==
  /\ lpc = "magic"
  /\ LoadMay
  /\ LET m == ReadMagic(disk)
     IN  IF ~present
         THEN /\ Fail(NotFound)
              /\ UNCHANGED pos
         ELSE IF MagicAccepted(m)
         THEN /\ pos' = m.read
              /\ lpc' = "index"
              /\ UNCHANGED lres
         ELSE /\ Fail(Err("MagicBytes", [bytes |-> Take(m.bytes, m.read)]))
              /\ UNCHANGED pos
  /\ UNCHANGED <<serverVars, inputVars, saveVars, fileVars, index, hash_count, lhashes,
                 manifest_hash, files, li, lmanifest, package, lookup>>

\* Lines 123-125: the manifest index.
LoadIndex ==
  /\ lpc = "index"
  /\ LET r == ReadU64(disk, pos)
     IN  IF r.ok
         THEN /\ index' = r.val
              /\ pos' = pos + U64Len
              /\ lpc' = "count"
              /\ UNCHANGED lres
         ELSE /\ Fail(UnexpectedEof)
              /\ UNCHANGED <<index, pos>>
  /\ UNCHANGED <<serverVars, inputVars, saveVars, fileVars, hash_count, lhashes,
                 manifest_hash, files, li, lmanifest, package, lookup>>

\* Lines 127-129: the entry count.
LoadCount ==
  /\ lpc = "count"
  /\ LET r == ReadU64(disk, pos)
     IN  IF r.ok
         THEN /\ hash_count' = r.val
              /\ pos' = pos + U64Len
              /\ lpc' = "entries"
              /\ UNCHANGED lres
         ELSE /\ Fail(UnexpectedEof)
              /\ UNCHANGED <<hash_count, pos>>
  /\ UNCHANGED <<serverVars, inputVars, saveVars, fileVars, index, lhashes,
                 manifest_hash, files, li, lmanifest, package, lookup>>

\* Lines 131-148, one turn of the loop: read an entry, check it against the
\* one before, keep it.
LoadEntry ==
  /\ lpc = "entries"
  /\ Len(lhashes) < hash_count
  /\ LET h == ReadHash(disk, pos)
         n == ReadU64(disk, pos + HashLen)
         c == EntryCheck(lhashes, h.bytes)
     IN  IF ~h.ok \/ ~n.ok
         THEN /\ Fail(UnexpectedEof)
              /\ UNCHANGED <<lhashes, pos>>
         ELSE IF c # Ok
         THEN /\ Fail(c)
              /\ UNCHANGED <<lhashes, pos>>
         ELSE /\ lhashes' = Append(lhashes, Entry(h.bytes, n.val))
              /\ pos' = pos + HashLen + U64Len
              /\ UNCHANGED <<lpc, lres>>
  /\ UNCHANGED <<serverVars, inputVars, saveVars, fileVars, index, hash_count,
                 manifest_hash, files, li, lmanifest, package, lookup>>

\* Lines 150-153: hashes.get(index), else ManifestIndexOutOfBounds.
LoadManifestHash ==
  /\ lpc = "entries"
  /\ Len(lhashes) >= hash_count
  /\ LET e == GetEntry(lhashes, index)
     IN  IF e.some
         THEN /\ manifest_hash' = e.entry.hash
              /\ li' = 1
              /\ lpc' = "blobs"
              /\ UNCHANGED lres
         ELSE /\ Fail(Err("ManifestIndexOutOfBounds", [index |-> index]))
              /\ UNCHANGED <<manifest_hash, li>>
  /\ UNCHANGED <<serverVars, inputVars, saveVars, fileVars, pos, index, hash_count, lhashes,
                 files, lmanifest, package, lookup>>

\* Lines 157-167, one turn of the loop: allocate a buffer of the declared
\* length, fill it from the file, hash it, require the declared hash, keep
\* it.  A length above isize::MAX panics; a length of 2^30 or more may be
\* more than the allocator gives.
LoadBlob ==
  /\ lpc = "blobs"
  /\ li <= Len(lhashes)
  /\ LET expected == lhashes[li].hash
         buffer == ReadExact(disk, pos, lhashes[li].len)
     IN  IF lhashes[li].len > HeldLimit
         THEN /\ Fail(CapacityOverflow)
              /\ UNCHANGED <<files, pos, li>>
         ELSE \/ /\ lhashes[li].len >= HeldLimit
                 /\ Fail(AllocationFailed)
                 /\ UNCHANGED <<files, pos, li>>
              \/ IF ~buffer.ok
                 THEN /\ Fail(UnexpectedEof)
                      /\ UNCHANGED <<files, pos, li>>
                 ELSE IF BlobCheck(expected, buffer.bytes) # Ok
                 THEN /\ Fail(BlobCheck(expected, buffer.bytes))
                      /\ UNCHANGED <<files, pos, li>>
                 ELSE /\ files' = Insert(files, expected, buffer.bytes)
                      /\ pos' = pos + lhashes[li].len
                      /\ li' = li + 1
                      /\ UNCHANGED <<lpc, lres>>
  /\ UNCHANGED <<serverVars, inputVars, saveVars, fileVars, index, hash_count, lhashes,
                 manifest_hash, lmanifest, package, lookup>>

\* A loader that goes on to the manifest without looking at the length.
LoadTrailingSkipped ==
  /\ lpc = "blobs"
  /\ li > Len(lhashes)
  /\ lpc' = "manifest"
  /\ UNCHANGED <<serverVars, inputVars, saveVars, fileVars, pos, index, hash_count, lhashes,
                 manifest_hash, files, li, lmanifest, lres, package, lookup>>

\* Lines 169-176: the stream position must be the file's length.
LoadTrailing ==
  /\ lpc = "blobs"
  /\ li > Len(lhashes)
  /\ IF TrailingCheck(pos, Len(disk)) = Ok
     THEN /\ lpc' = "manifest"
          /\ UNCHANGED lres
     ELSE Fail(TrailingCheck(pos, Len(disk)))
  /\ UNCHANGED <<serverVars, inputVars, saveVars, fileVars, pos, index, hash_count, lhashes,
                 manifest_hash, files, li, lmanifest, package, lookup>>

\* Lines 178-179: deserialize the blob stored under the manifest hash.
LoadDeserialize ==
  /\ lpc = "manifest"
  /\ LET d == DeserializeManifest(files[manifest_hash])
     IN  IF d.ok
         THEN /\ lmanifest' = d.manifest
              /\ lpc' = "verify"
              /\ UNCHANGED lres
         ELSE /\ Fail(Err("DeserializeManifest", <<>>))
              /\ UNCHANGED lmanifest
  /\ UNCHANGED <<serverVars, inputVars, saveVars, fileVars, pos, index, hash_count, lhashes,
                 manifest_hash, files, li, package, lookup>>

NoPackage == [files |-> <<>>, manifest |-> ManifestComic(<<>>), some |-> FALSE]

\* Lines 181-183: the manifest's own check, then Ok(Self { manifest, files }).
LoadVerify ==
  /\ lpc = "verify"
  /\ LET v == Verify(lmanifest, manifest_hash, files)
     IN  IF v = Ok
         THEN /\ package' = [files |-> files, manifest |-> lmanifest, some |-> TRUE]
              /\ lres' = Ok
              /\ lpc' = "done"
         ELSE /\ Fail(v)
              /\ UNCHANGED package
  /\ UNCHANGED <<serverVars, inputVars, saveVars, fileVars, pos, index, hash_count, lhashes,
                 manifest_hash, files, li, lmanifest, lookup>>

\* ------------------------------------------------------------------------
\* Package::file
\* ------------------------------------------------------------------------

Dot == 46
Slash == 47

\* The pieces of a path between its '/'.
RECURSIVE Segments(_)
Segments(path) ==
  IF path = <<>> THEN <<<<>>>>
  ELSE LET rest == Segments(Tail(path))
       IN  IF Head(path) = Slash THEN <<<<>>>> \o rest
           ELSE <<<<Head(path)>> \o Head(rest)>> \o Tail(rest)

\* A piece that Path::components keeps as a name or as "..": not empty and
\* not ".".
Named(c) == c # <<>> /\ c # <<Dot>>

\* Path::file_name: the last component, unless it is "..".
FileName(path) ==
  LET cs == SelectSeq(Segments(path), Named)
  IN  IF cs = <<>> \/ cs[Len(cs)] = <<Dot, Dot>> THEN [some |-> FALSE, name |-> <<>>]
      ELSE [some |-> TRUE, name |-> cs[Len(cs)]]

\* Where the last '.' of a name is, 0 if it has none.
LastDot(name) ==
  LET at == {i \in 1..Len(name) : name[i] = Dot}
  IN  IF at = {} THEN 0 ELSE CHOOSE i \in at : \A j \in at : j <= i

\* Path::extension: the bytes after the last '.' of the file name; none when
\* there is no file name, no '.', or the name begins with its only '.'.
Extension(path) ==
  LET f == FileName(path)
      i == LastDot(f.name)
  IN  IF ~f.some \/ i <= 1 THEN [some |-> FALSE, ext |-> <<>>]
      ELSE [some |-> TRUE, ext |-> Drop(f.name, i)]

\* ASCII letters folded to lower case.
Lower(path) == [i \in 1..Len(path) |-> IF path[i] \in 65..90 THEN path[i] + 32 ELSE path[i]]

\* mime_guess::from_path(path).first_or_octet_stream(): by the extension,
\* whatever its case.  Of the table of types the three of the packaged apps
\* are kept: html, js, css.
MimeGuess(path) ==
  LET e == Extension(path)
      ext == Lower(e.ext)
  IN  IF e.some /\ ext = <<104, 116, 109, 108>> THEN "text/html"
      ELSE IF e.some /\ ext = <<106, 115>> THEN "text/javascript"
      ELSE IF e.some /\ ext = <<99, 115, 115>> THEN "text/css"
      ELSE "application/octet-stream"

IsDigit(b) == b \in 48..57

RECURSIVE DigitsValue(_, _)
DigitsValue(acc, ds) ==
  IF ds = <<>> THEN acc ELSE DigitsValue(acc * 10 + (Head(ds) - 48), Tail(ds))

\* "18446744073709551615", the digits of usize::MAX.
UsizeMaxDigits ==
  <<49, 56, 52, 52, 54, 55, 52, 52, 48, 55, 51, 55, 48, 57, 53, 53, 49, 54, 49, 53>>

RECURSIVE StripZeros(_)
StripZeros(ds) == IF ds # <<>> /\ Head(ds) = 48 THEN StripZeros(Tail(ds)) ELSE ds

\* The digits spell a number above usize::MAX (IntErrorKind::PosOverflow).
PosOverflow(ds) ==
  LET d == StripZeros(ds)
  IN  \/ Len(d) > Len(UsizeMaxDigits)
      \/ Len(d) = Len(UsizeMaxDigits) /\ LexLess(UsizeMaxDigits, d)

\* A parser that reads what is no number as 0.
ParseUsizeLenient(path) ==
  LET ds == IF path # <<>> /\ path[1] = 43 THEN Tail(path) ELSE path
  IN  IF ds = <<>> \/ \E i \in 1..Len(ds) : ~IsDigit(ds[i])
      THEN [ok |-> TRUE, val |-> 0]
      ELSE IF PosOverflow(ds) THEN [ok |-> TRUE, val |-> 0]
      ELSE [ok |-> TRUE, val |-> DigitsValue(0, ds)]

\* path.parse::<usize>(): decimal digits after an optional '+', of a value
\* up to usize::MAX.
ParseUsize(path) ==
  LET ds == IF path # <<>> /\ path[1] = 43 THEN Tail(path) ELSE path
  IN  IF ds = <<>> \/ \E i \in 1..Len(ds) : ~IsDigit(ds[i])
      THEN [ok |-> FALSE, val |-> 0]
      ELSE IF PosOverflow(ds) THEN [ok |-> FALSE, val |-> 0]
      ELSE [ok |-> TRUE, val |-> DigitsValue(0, ds)]

None == [kind |-> "None", mime |-> "", bytes |-> <<>>]

Panic == [kind |-> "Panic", mime |-> "", bytes |-> <<>>]

Some(mime, bytes) == [kind |-> "Some", mime |-> mime, bytes |-> bytes]

\* files.get(hash).unwrap().clone()
Unwrap(fs, hash, mime) ==
  IF hash \in DOMAIN fs THEN Some(mime, fs[hash]) ELSE Panic

\* A lookup that folds the case of the path.
AppKeyFolded(paths, path) ==
  IF Lower(path) \in DOMAIN paths THEN [some |-> TRUE, key |-> Lower(path)]
  ELSE [some |-> FALSE, key |-> path]

\* Lines 247-250: paths.get(path)?, the key as given.
AppKey(paths, path) ==
  IF path \in DOMAIN paths THEN [some |-> TRUE, key |-> path]
  ELSE [some |-> FALSE, key |-> path]

\* Package::file(&self, path)
PackageFile(pkg, path) ==
  IF pkg.manifest.kind = "App"
  THEN LET k == AppKey(pkg.manifest.paths, path)
       IN  IF ~k.some THEN None
           ELSE Unwrap(pkg.files, pkg.manifest.paths[k.key], MimeGuess(path))
  ELSE LET n == ParseUsize(path)
       IN  IF ~n.ok \/ n.val >= Len(pkg.manifest.pages) THEN None
           ELSE Unwrap(pkg.files, pkg.manifest.pages[n.val + 1], "image/jpeg")

NoLookup == [path |-> <<>>, result |-> None, called |-> FALSE]

\* ------------------------------------------------------------------------
\* Inputs
\* ------------------------------------------------------------------------

\* "a.js", "b" and "c": the relative paths of source files.
PathA == <<97, 46, 106, 115>>
PathB == <<98>>
PathC == <<99>>

\* ".js", a file name that begins with its only '.'.
DotJs == <<46, 106, 115>>

FilePaths == {PathA, PathB}

\* The paths the resolver is asked for: the keys, variants of them ("A.js",
\* "a.js ", "./a.js", "B", ".js", "a.js/"), page numbers, strings that are
\* none and the digits of usize::MAX + 1.
QueryPaths ==
  {PathA, PathB, PathC, DotJs,
   <<65, 46, 106, 115>>, <<97, 46, 106, 115, 32>>, <<46, 47, 97, 46, 106, 115>>, <<66>>,
   <<97, 46, 106, 115, 47>>,
   <<>>, <<48>>, <<49>>, <<50>>, <<43, 49>>, <<48, 48>>, <<45, 49>>, <<120>>,
   [UsizeMaxDigits EXCEPT ![Len(UsizeMaxDigits)] = 54]}

ContentAlphabet == {120, 121}

SeqsUpTo(S, n) == UNION {[1..k -> S] : k \in 0..n}

\* The contents a source file may have.
ContentPool == SeqsUpTo(ContentAlphabet, MaxBlobLen)

Perms(D) == {s \in [1..Cardinality(D) -> D] : RangeOf(s) = D}

\* What the caller may declare for a path: what subcommand::Package::hashes
\* computes from the file (lines 51-73), or, calling save directly, a hash
\* or a length that is not the file's; for "b" the hash may be the one of
\* the manifest.
Computed(bytes) == Entry(Blake3(bytes), Len(bytes))

ComputeHashes(rt) == [p \in DOMAIN rt |-> Computed(rt[p])]

OtherContent(c) == IF c = <<>> THEN <<120>> ELSE <<>>

\* The hash of a manifest save may be given: an App without paths.
PathlessAppHash == Blake3(SerializeManifest(ManifestApp("Comic", <<>>)))

Declared(rt, p) ==
  IF p \in DOMAIN rt
  THEN {Computed(rt[p]),
        Entry(Blake3(OtherContent(rt[p])), Len(rt[p])),
        Entry(Blake3(rt[p]), Len(rt[p]) + 1)}
         \cup (IF p = PathB THEN {Entry(PathlessAppHash, Len(rt[p]))} ELSE {})
  ELSE {Computed(<<>>)}

DeclaredMaps(rt, D) ==
  {f \in [D -> UNION {Declared(rt, p) : p \in D}] : \A p \in D : f[p] \in Declared(rt, p)}

Restrict(f, D) == [x \in D |-> f[x]]

\* The manifests save is given: the ones Template::manifest builds, an App
\* that leaves files out, and an App that names a file the package lacks.
Manifests(hs) ==
  {TemplateManifest([kind |-> "App", handles |-> t, pages |-> <<>>], hs) : t \in Types}
    \cup {TemplateManifest([kind |-> "Comic", handles |-> "Comic", pages |-> pg], hs) :
            pg \in Perms(DOMAIN hs)}
    \cup {ManifestApp("Comic", Restrict([p \in DOMAIN hs |-> hs[p].hash], D)) :
            D \in (SUBSET DOMAIN hs) \ {DOMAIN hs}}
    \cup {ManifestApp("Comic", [p \in DOMAIN hs \cup {PathC} |->
                                  IF p = PathC THEN Ones32 ELSE hs[p].hash])}

LoadStart ==
  /\ lpc = "magic"
  /\ pos = 0
  /\ index = 0
  /\ hash_count = 0
  /\ lhashes = <<>>
  /\ manifest_hash = Zeros32
  /\ files = <<>>
  /\ li = 1
  /\ lmanifest = ManifestComic(<<>>)
  /\ lres = Pending
  /\ package = NoPackage
  /\ lookup = NoLookup

NoFile == [path |-> "", bytes |-> <<>>, present |-> FALSE]

NoResponse == [kind |-> "None", mime |-> "", body |-> <<>>]

\* No server runs.
ServerIdle ==
  /\ srvpc = "none"
  /\ app_file = NoFile
  /\ content_file = NoFile
  /\ app = NoPackage
  /\ content = NoPackage
  /\ srvres = Pending
  /\ serving = FALSE
  /\ response = NoResponse

\* A save of some files under a root, then a load of what it wrote.  No
\* operation on the files fails but the opening of a source file that is
\* not there.
Init ==
  /\ outfail = "none"
  /\ outcap = 0
  /\ present = FALSE
  /\ \E D \in SUBSET FilePaths :
       /\ root \in UNION {[S -> ContentPool] : S \in SUBSET D}
       /\ hashes \in DeclaredMaps(root, D)
  /\ order \in Perms(DOMAIN hashes)
  /\ manifest \in Manifests(hashes)
  /\ spc = "start"
  /\ sorted = <<>>
  /\ si = 1
  /\ sres = Pending
  /\ disk = <<>>
  /\ LoadStart
  /\ ServerIdle

\* Package::file on the package load returned.
FileCall ==
  /\ lpc = "done"
  /\ lres = Ok
  /\ \E path \in QueryPaths :
       lookup' = [path |-> path, result |-> PackageFile(package, path), called |-> TRUE]
  /\ UNCHANGED <<serverVars, inputVars, saveVars, fileVars, loadVars>>

SaveNext == SaveCreate \/ SaveIndex \/ SaveBlob \/ SaveReturn

LoadNext ==
  \/ LoadMagic
  \/ LoadIndex
  \/ LoadCount
  \/ LoadEntry
  \/ LoadManifestHash
  \/ LoadBlob
  \/ LoadTrailing
  \/ LoadDeserialize
  \/ LoadVerify

Next == SaveNext \/ LoadNext \/ FileCall

Spec == Init /\ [][Next]_vars

\* The limits of an output that is to hold n bytes: none at all, the marker
\* and header, one byte less than n, and n.
OutCaps(n) == {k \in {0, Len(MAGIC_BYTES) + 2 * U64Len, n - 1, n} : k >= 0 /\ k <= n}

\* A save whose files may fail, then a load of what reached the output
\* file.  The declared pairs are the ones computed from the source files.
InitSaveIo ==
  /\ outfail \in OutFailures
  /\ present = FALSE
  /\ \E D \in SUBSET FilePaths :
       /\ root \in UNION {[S -> ContentPool] : S \in SUBSET D}
       /\ hashes = [p \in D |-> IF p \in DOMAIN root THEN Computed(root[p])
                                                     ELSE Computed(<<>>)]
  /\ order \in Perms(DOMAIN hashes)
  /\ manifest \in Manifests(hashes)
  /\ outcap \in IF outfail = "full"
                 THEN OutCaps(Len(SaveRun(hashes, order, manifest, root).bytes))
                 ELSE {0}
  /\ spc = "start"
  /\ sorted = <<>>
  /\ si = 1
  /\ sres = Pending
  /\ disk = <<>>
  /\ LoadStart
  /\ ServerIdle

SpecSaveIo == InitSaveIo /\ [][Next]_vars

\* ------------------------------------------------------------------------
\* Package files written by hand, as the loader's tests write them
\* ------------------------------------------------------------------------

\* Manifests whose bytes a crafted file may hold.
CraftManifests ==
  {ManifestComic(<<>>),
   ManifestComic(<<Blake3(<<120>>)>>),
   ManifestApp("Comic", [p \in {PathA, DotJs} |-> Blake3(<<>>)])}

CraftBlobs == {<<>>, <<120>>} \cup {SerializeManifest(m) : m \in CraftManifests}

\* An index entry and the blob stored for it: the entry declares the blob's
\* hash and length, or [0; 32] for the hash, or one byte more than there is.
CraftEntries ==
  UNION {{[blob |-> b, hash |-> Blake3(b), len |-> Len(b)],
          [blob |-> b, hash |-> Zeros32, len |-> Len(b)],
          [blob |-> b, hash |-> Blake3(b), len |-> Len(b) + 1]} : b \in CraftBlobs}

TableEnd(n) == Len(MAGIC_BYTES) + 2 * U64Len + n * (HashLen + U64Len)

\* magic, manifest index, entry count, table, blobs, trailing bytes.
CraftFile(magic, idx, es, trail) ==
  magic \o U64Bytes(idx) \o U64Bytes(Len(es))
    \o Flatten([i \in 1..Len(es) |-> EntryBytes(es[i])])
    \o Flatten([i \in 1..Len(es) |-> es[i].blob])
    \o Zeros(trail)

\* Where a crafted file is cut short: anywhere in the magic and the header,
\* inside and between the table's entries, and in the blobs.
Cuts(f, n) ==
  {c \in (IF n <= 1 THEN 0..TableEnd(0) ELSE {})
           \cup {TableEnd(i) + j : i \in 0..(n - 1), j \in {HashLen - 1, HashLen + U64Len - 1}}
           \cup {TableEnd(n), TableEnd(n) + 1, Len(f) - 1} :
     c >= 0 /\ c < Len(f)}

\* Ten bytes that are not the marker: "this-is-no", and the marker with its
\* last or its first byte changed.
BadMagics ==
  {<<116, 104, 105, 115, 45, 105, 115, 45, 110, 111>>,
   [MAGIC_BYTES EXCEPT ![Len(MAGIC_BYTES)] = 1],
   [MAGIC_BYTES EXCEPT ![1] = 109]}

\* A package of one entry, the manifest of a Comic without pages.
CraftEmptyComic ==
  LET b == SerializeManifest(ManifestComic(<<>>))
  IN  <<[blob |-> b, hash |-> Blake3(b), len |-> Len(b)]>>

\* Declared lengths no file has: 2^30, 2^63 - 1 and 2^63.
HugeLens ==
  {<<0, 0, 0, 64, 0, 0, 0, 0>>,
   <<255, 255, 255, 255, 255, 255, 255, 127>>,
   <<0, 0, 0, 0, 0, 0, 0, 128>>}

\* A package of one entry that declares such a length, with the manifest
\* index inside the table or past it.
CraftHuge ==
  LET b == SerializeManifest(ManifestComic(<<>>))
  IN  {MAGIC_BYTES \o U64Bytes(idx) \o U64Bytes(1) \o Blake3(b) \o n \o blob :
         idx \in {0, 1}, n \in HugeLens, blob \in {<<>>, b}}

CraftedFiles ==
  LET tables == SeqsUpTo(CraftEntries, MaxEntries)
  IN  UNION {{CraftFile(MAGIC_BYTES, idx, es, k) : idx \in 0..MaxEntries, k \in 0..MaxTrail} :
               es \in tables}
        \cup UNION {UNION {{Take(CraftFile(MAGIC_BYTES, idx, es, 0), c) :
                              c \in Cuts(CraftFile(MAGIC_BYTES, idx, es, 0), Len(es))} :
                             idx \in 0..MaxEntries} : es \in tables}
        \cup UNION {{Take(CraftFile(bad, 0, es, k), c) :
                       c \in 0..TableEnd(0) \cup {TableEnd(1) + 2}, k \in 0..1} :
                      bad \in BadMagics, es \in {<<>>, CraftEmptyComic}}
        \cup CraftHuge

\* A load of a crafted file, or of a path where no file is: no save runs.
InitLoad ==
  /\ outfail = "none"
  /\ outcap = 0
  /\ \/ present = TRUE /\ disk \in CraftedFiles
     \/ present = FALSE /\ disk = <<>>
  /\ root = <<>>
  /\ hashes = <<>>
  /\ order = <<>>
  /\ manifest = ManifestComic(<<>>)
  /\ spc = "none"
  /\ sorted = <<>>
  /\ si = 1
  /\ sres = Pending
  /\ LoadStart
  /\ ServerIdle

NextLoad == LoadNext \/ FileCall

SpecLoad == InitLoad /\ [][NextLoad]_vars

\* ------------------------------------------------------------------------
\* Server::run (subcommand/server.rs)
\* ------------------------------------------------------------------------

\* Package::load(path).context(error::PackageLoad { path })?: an error of
\* load is wrapped with the path; a panic or an abort in load ends run.
PackageLoad(path, res) ==
  IF res = Ok THEN Ok
  ELSE IF Unwound(res) THEN res
  ELSE Err("PackageLoad", [path |-> path, source |-> res])

\* A gate that takes any content once the app package is an App.
GateCheckAppOnly(a, c) ==
  IF a.manifest.kind = "App" THEN Ok
  ELSE Err("AppType", [ty |-> Ty(a.manifest)])

\* Lines 71-87: the app package must be an App and must handle the type of
\* the content.
GateCheck(a, c) ==
  IF a.manifest.kind = "App"
  THEN IF Ty(c.manifest) = a.manifest.handles THEN Ok
       ELSE Err("ContentType",
                [content |-> Ty(c.manifest), handles |-> a.manifest.handles])
  ELSE Err("AppType", [ty |-> Ty(a.manifest)])

\* Server::file(package, prefix, path): the resource, or NotFound naming the
\* prefixed path.
ServerFile(pkg, prefix, path) ==
  LET r == PackageFile(pkg, path)
  IN  IF r.kind = "Some" THEN [kind |-> "Resource", mime |-> r.mime, body |-> r.bytes]
      ELSE IF r.kind = "None"
      THEN [kind |-> "NotFound", mime |-> "", body |-> prefix \o path]
      ELSE [kind |-> "Panic", mime |-> "", body |-> <<>>]

\* "index.html", "/app/" and "/content/".
IndexHtml == <<105, 110, 100, 101, 120, 46, 104, 116, 109, 108>>
AppPrefix == <<47, 97, 112, 112, 47>>
ContentPrefix == <<47, 99, 111, 110, 116, 101, 110, 116, 47>>

\* The next load starts from fresh locals.
LoadReset ==
  /\ lpc' = "magic"
  /\ pos' = 0
  /\ index' = 0
  /\ hash_count' = 0
  /\ lhashes' = <<>>
  /\ manifest_hash' = Zeros32
  /\ files' = <<>>
  /\ li' = 1
  /\ lmanifest' = ManifestComic(<<>>)
  /\ lres' = Pending
  /\ package' = NoPackage

\* Line 67: the load of self.app has returned.
ServerAppLoaded ==
  /\ srvpc = "app"
  /\ lpc = "done"
  /\ LET r == PackageLoad(app_file.path, lres)
     IN  IF r = Ok
         THEN /\ app' = package
              /\ srvpc' = "content"
              /\ disk' = content_file.bytes
              /\ present' = content_file.present
              /\ LoadReset
              /\ UNCHANGED srvres
         ELSE /\ srvres' = r
              /\ srvpc' = "done"
              /\ UNCHANGED <<app, fileVars, loadVars>>
  /\ UNCHANGED <<inputVars, saveVars, lookup, app_file, content_file, content,
                 serving, response>>

\* Lines 68-70: the load of self.content has returned.
ServerContentLoaded ==
  /\ srvpc = "content"
  /\ lpc = "done"
  /\ LET r == PackageLoad(content_file.path, lres)
     IN  IF r = Ok
         THEN /\ content' = package
              /\ srvpc' = "check"
              /\ UNCHANGED srvres
         ELSE /\ srvres' = r
              /\ srvpc' = "done"
              /\ UNCHANGED content
  /\ UNCHANGED <<inputVars, saveVars, fileVars, loadVars, lookup, app_file,
                 content_file, app, serving, response>>

\* Lines 72-87.
ServerCheck ==
  /\ srvpc = "check"
  /\ LET r == GateCheck(app, content)
     IN  IF r = Ok
         THEN /\ srvpc' = "bind"
              /\ UNCHANGED srvres
         ELSE /\ srvres' = r
              /\ srvpc' = "done"
  /\ UNCHANGED <<inputVars, saveVars, fileVars, loadVars, lookup, app_file,
                 content_file, app, content, serving, response>>

\* Lines 89-90: the runtime is made and the address bound, or either fails.
ServerBind ==
  /\ srvpc = "bind"
  /\ \/ /\ srvpc' = "serving"
        /\ serving' = TRUE
        /\ UNCHANGED srvres
     \/ /\ \E e \in {"Runtime", "Serve"} : srvres' = Err(e, <<>>)
        /\ srvpc' = "done"
        /\ UNCHANGED serving
  /\ UNCHANGED <<inputVars, saveVars, fileVars, loadVars, lookup, app_file,
                 content_file, app, content, response>>

\* "comic" and "app": the type as the JSON of a manifest names it.
TypeName(t) == IF t = "Comic" THEN <<99, 111, 109, 105, 99>> ELSE <<97, 112, 112>>

\* serde_json::to_vec(&manifest): an object that begins {"type":"<type>"
\* (tests::routes, lines 265-271).  The members after the type are given by
\* the Manifest type, which is not among the sources; they stand here as
\* the manifest's encoded fields.
ManifestJson(m) ==
  <<123, 34, 116, 121, 112, 101, 34, 58, 34>> \o TypeName(Ty(m)) \o <<34, 44>>
    \o Tail(SerializeManifest(m)) \o <<125>>

\* Lines 110-115: Server::manifest, the content package's manifest as JSON.
ServerManifest(c) ==
  [kind |-> "Resource", mime |-> "application/json", body |-> ManifestJson(c.manifest)]

\* Lines 110-130: the routes /, /api/manifest, /app/*path and
\* /content/*path.
ServerRequest ==
  /\ srvpc = "serving"
  /\ \/ response' = ServerFile(app, <<>>, IndexHtml)
     \/ response' = ServerManifest(content)
     \/ \E path \in QueryPaths : response' = ServerFile(app, AppPrefix, path)
     \/ \E path \in QueryPaths : response' = ServerFile(content, ContentPrefix, path)
  /\ UNCHANGED <<inputVars, saveVars, fileVars, loadVars, lookup, srvpc, app_file,
                 content_file, app, content, srvres, serving>>

\* Lines 100-107: serve ends, with an error or without.
ServerStop ==
  /\ srvpc = "serving"
  /\ srvres' \in {Ok, Err("Serve", <<>>)}
  /\ srvpc' = "done"
  /\ UNCHANGED <<inputVars, saveVars, fileVars, loadVars, lookup, app_file,
                 content_file, app, content, serving, response>>

\* The package files a server is started on: an App that handles comics,
\* an App that handles apps, a Comic, two of them damaged (the last byte
\* cut off, a byte added), a package whose entry declares a length of 2^63,
\* and a path where no file is.
ServerRoot == (PathA :> <<120>>) @@ (PathB :> <<121>>)

ServerManifests ==
  {TemplateManifest([kind |-> "App", handles |-> t, pages |-> <<>>],
                    ComputeHashes(ServerRoot)) : t \in Types}
    \cup {TemplateManifest([kind |-> "Comic", handles |-> "Comic", pages |-> <<PathB, PathA>>],
                           ComputeHashes(ServerRoot))}

ServerPackage(m) ==
  SaveRun(ComputeHashes(ServerRoot), <<PathA, PathB>>, m, ServerRoot).bytes

ServerHuge ==
  LET b == SerializeManifest(ManifestComic(<<>>))
  IN  MAGIC_BYTES \o U64Bytes(0) \o U64Bytes(1) \o Blake3(b)
        \o <<0, 0, 0, 0, 0, 0, 0, 128>>

ServerInputs ==
  {[manifest |-> m, damaged |-> FALSE, present |-> TRUE, bytes |-> ServerPackage(m)] :
     m \in ServerManifests}
    \cup {[manifest |-> m, damaged |-> TRUE, present |-> TRUE,
           bytes |-> Take(ServerPackage(m), Len(ServerPackage(m)) - 1)] :
            m \in {x \in ServerManifests : x.kind = "App" /\ x.handles = "Comic"}}
    \cup {[manifest |-> m, damaged |-> TRUE, present |-> TRUE,
           bytes |-> ServerPackage(m) \o <<0>>] :
            m \in {x \in ServerManifests : x.kind = "Comic"}}
    \cup {[manifest |-> ManifestComic(<<>>), damaged |-> TRUE, present |-> TRUE,
           bytes |-> ServerHuge]}
    \cup {[manifest |-> ManifestComic(<<>>), damaged |-> TRUE, present |-> FALSE,
           bytes |-> <<>>]}

AppPath == "app.package"
ContentPath == "content.package"

InitServer ==
  /\ outfail = "none"
  /\ outcap = 0
  /\ root = <<>>
  /\ hashes = <<>>
  /\ order = <<>>
  /\ manifest = ManifestComic(<<>>)
  /\ spc = "none"
  /\ sorted = <<>>
  /\ si = 1
  /\ sres = Pending
  /\ app_file \in {[path |-> AppPath, bytes |-> x.bytes, present |-> x.present] :
                     x \in ServerInputs}
  /\ content_file \in {[path |-> ContentPath, bytes |-> x.bytes, present |-> x.present] :
                         x \in ServerInputs}
  /\ disk = app_file.bytes
  /\ present = app_file.present
  /\ LoadStart
  /\ srvpc = "app"
  /\ app = NoPackage
  /\ content = NoPackage
  /\ srvres = Pending
  /\ serving = FALSE
  /\ response = NoResponse

NextServer ==
  \/ LoadNext
  \/ ServerAppLoaded
  \/ ServerContentLoaded
  \/ ServerCheck
  \/ ServerBind
  \/ ServerRequest
  \/ ServerStop

SpecServer == InitServer /\ [][NextServer]_vars

\* ------------------------------------------------------------------------
\* The file format, read off a file directly (external interface: magic,
\* manifest index, entry count, table, blobs)
\* ------------------------------------------------------------------------

BeginsWithMagic(f) == Take(f, Len(MAGIC_BYTES)) = MAGIC_BYTES

HeaderComplete(f) == BeginsWithMagic(f) /\ Len(f) >= TableEnd(0)

FmtIndex(f) == U64Value(SubSeq(f, Len(MAGIC_BYTES) + 1, Len(MAGIC_BYTES) + U64Len))

FmtCount(f) == U64Value(SubSeq(f, Len(MAGIC_BYTES) + U64Len + 1, TableEnd(0)))

\* Entry i of the table, counted from 0.
FmtEntry(f, i) ==
  Entry(SubSeq(f, TableEnd(i) + 1, TableEnd(i) + HashLen),
        U64Value(SubSeq(f, TableEnd(i) + HashLen + 1, TableEnd(i + 1))))

\* How many of the counted entries the file holds in full.
FmtEntriesPresent(f) ==
  Min(FmtCount(f), (Len(f) - TableEnd(0)) \div (HashLen + U64Len))

TableComplete(f) == HeaderComplete(f) /\ FmtEntriesPresent(f) = FmtCount(f)

FmtTable(f) == [i \in 1..FmtEntriesPresent(f) |-> FmtEntry(f, i - 1)]

\* Entries 0..k-1 are strictly ascending by hash bytes.
Ascending(v, k) == \A i \in 2..k : LexLess(v[i - 1].hash, v[i].hash)

RECURSIVE SumLens(_, _)
SumLens(v, k) == IF k = 0 THEN 0 ELSE v[k].len + SumLens(v, k - 1)

\* Where blob i (from 0) starts and ends, by the declared lengths.
FmtBlobStart(f, i) == TableEnd(FmtCount(f)) + SumLens(FmtTable(f), i)

FmtBlobPresent(f, i) == FmtBlobStart(f, i + 1) <= Len(f)

FmtBlob(f, i) == SubSeq(f, FmtBlobStart(f, i) + 1, FmtBlobStart(f, i + 1))

FmtBlobGood(f, i) ==
  FmtBlobPresent(f, i) /\ Blake3(FmtBlob(f, i)) = FmtEntry(f, i).hash

\* The table is whole and ascending and the manifest index is inside it.
TableValid(f) ==
  /\ TableComplete(f)
  /\ Ascending(FmtTable(f), FmtCount(f))
  /\ FmtIndex(f) < FmtCount(f)

AllBlobsGood(f) == \A i \in 0..(FmtCount(f) - 1) : FmtBlobGood(f, i)

\* ------------------------------------------------------------------------
\* Claims
\* ------------------------------------------------------------------------

\* The declared pairs are computed from the files, and the manifest refers
\* to exactly their hashes.
HonestInput ==
  /\ DOMAIN root = DOMAIN hashes
  /\ hashes = ComputeHashes(root)
  /\ Referenced(manifest) = {hashes[p].hash : p \in DOMAIN hashes}

ExpectedFiles ==
  LET bytes == SerializeManifest(manifest)
  IN  [h \in {Blake3(root[p]) : p \in DOMAIN root} \cup {Blake3(bytes)} |->
         IF h = Blake3(bytes) THEN bytes
         ELSE root[CHOOSE p \in DOMAIN root : Blake3(root[p]) = h]]

\* C1 (round trip): for files whose declared pairs are computed from their
\* contents and a manifest referring to their hashes, load of what save
\* wrote succeeds and returns the input buffers keyed by hash, plus the
\* manifest's bytes under its hash, and the input manifest.
C1_RoundTrip ==
  (HonestInput /\ spc = "done" /\ lpc = "done") =>
    /\ sres = Ok
    /\ lres = Ok
    /\ package.some
    /\ package.files = ExpectedFiles
    /\ package.manifest = manifest

\* The round trip for files of pairwise different contents, where the index
\* save writes has no repeated hash.
C1_RoundTripDistinct ==
  (/\ HonestInput
   /\ \A p, q \in DOMAIN root : root[p] = root[q] => p = q
   /\ spc = "done" /\ lpc = "done") =>
    /\ sres = Ok
    /\ lres = Ok
    /\ package.some
    /\ package.files = ExpectedFiles
    /\ package.manifest = manifest

\* C2 (content authentication): a returned Package holds under every key
\* bytes that hash to the key; and when the table is valid and an entry's
\* bytes, read after all earlier blobs were accepted, do not hash to the
\* declared hash, load fails with FileHashInvalid naming the declared hash
\* and the hash of the bytes read, and returns no Package.
C2_ContentAuthenticated ==
  /\ package.some => \A h \in DOMAIN package.files : Blake3(package.files[h]) = h
  /\ (lres = Ok) => (package.some /\ AllBlobsGood(disk))
  /\ (lpc = "done" /\ TableValid(disk)) =>
       \A i \in 0..(FmtCount(disk) - 1) :
         (/\ \A j \in 0..(i - 1) : FmtBlobGood(disk, j)
          /\ FmtBlobPresent(disk, i)
          /\ ~FmtBlobGood(disk, i)) =>
           /\ lres = Err("FileHashInvalid",
                         [expected |-> FmtEntry(disk, i).hash,
                          actual |-> Blake3(FmtBlob(disk, i))])
           /\ ~package.some
  /\ (lres.kind = "FileHashInvalid") =>
       /\ TableValid(disk)
       /\ \E i \in 0..(FmtCount(disk) - 1) :
            /\ \A j \in 0..(i - 1) : FmtBlobGood(disk, j)
            /\ FmtBlobPresent(disk, i)
            /\ lres.fields.expected = FmtEntry(disk, i).hash
            /\ lres.fields.actual = Blake3(FmtBlob(disk, i))
            /\ lres.fields.actual # lres.fields.expected

\* A load that met a wrong blob after accepting an earlier one.
C2_Witness ==
  /\ lpc = "done"
  /\ lres.kind = "FileHashInvalid"
  /\ li = 2
  /\ files # <<>>

\* C3 (canonical index): the table save wrote is strictly ascending by hash
\* bytes, without a repeated hash, and holds one entry per distinct blob
\* hash of the caller plus one for the manifest.
C3_CanonicalIndex ==
  spc \in {"blobs", "done"} =>
    /\ TableComplete(disk)
    /\ Ascending(FmtTable(disk), FmtCount(disk))
    /\ FmtCount(disk) = Cardinality({hashes[p].hash : p \in DOMAIN hashes}) + 1

\* Any two paths that carry one hash carry one length and name files of one
\* content.
SameHashSameBlob ==
  \A p, q \in DOMAIN hashes :
    hashes[p].hash = hashes[q].hash =>
      /\ hashes[p].len = hashes[q].len
      /\ (p \in DOMAIN root) = (q \in DOMAIN root)
      /\ (p \in DOMAIN root /\ q \in DOMAIN root) => root[p] = root[q]

\* C4 as stated (determinism): whatever the order in which the input map is
\* iterated, a save that succeeds leaves the same bytes.
C4_Determinism ==
  (spc = "done" /\ lpc = "magic" /\ sres = Ok) =>
    \A o \in Perms(DOMAIN hashes) :
      LET other == SaveRun(hashes, o, manifest, root)
      IN  other.res = Ok => other.bytes = disk

\* C4 as amended: save leaves the same bytes and the same result for every
\* iteration order, provided that paths sharing a hash share length and
\* source content.
C4_DeterminismAgreeing ==
  (spc = "done" /\ lpc = "magic" /\ SameHashSameBlob) =>
    \A o \in Perms(DOMAIN hashes) :
      LET other == SaveRun(hashes, o, manifest, root)
      IN  /\ other.bytes = disk
          /\ other.res.kind = sres.kind

\* A finished save of two files of different hashes, iterated in the order
\* opposite to that of their hashes.
C4_Witness ==
  /\ spc = "done"
  /\ sres = Ok
  /\ SameHashSameBlob
  /\ lpc = "magic"
  /\ Cardinality(DOMAIN hashes) = 2
  /\ Len(sorted) = 3
  /\ order = <<PathB, PathA>>
  /\ LexLess(hashes[PathA].hash, hashes[PathB].hash)

\* C5 (magic check): a file that does not begin with the whole marker makes
\* load fail with MagicBytes, reporting the first min(length, marker
\* length) bytes of the file.
C5_MagicCheck ==
  (lpc # "magic" /\ present /\ ~BeginsWithMagic(disk)) =>
    /\ lpc = "done"
    /\ lres = Err("MagicBytes", [bytes |-> Take(disk, Len(MAGIC_BYTES))])

\* A table entry, from the second on, that is not above the one before it.
NotAbove(v, i) == ~LexLess(v[i - 1].hash, v[i].hash)

FirstNotAbove(v) ==
  CHOOSE i \in 2..Len(v) : NotAbove(v, i) /\ \A j \in 2..(i - 1) : ~NotAbove(v, j)

\* C6 (index ordering check): with the magic and header read, load stops at
\* the first entry held in full that is not strictly above its predecessor,
\* with FileHashOrder naming that entry's hash if it is below and
\* FileHashDuplicated if it is equal; without such an entry neither error
\* is raised.
C6_IndexOrder ==
  (lpc = "done" /\ HeaderComplete(disk)) =>
    LET v == FmtTable(disk)
    IN  IF \E i \in 2..Len(v) : NotAbove(v, i)
        THEN LET i == FirstNotAbove(v)
             IN  /\ lhashes = SubSeq(v, 1, i - 1)
                 /\ LexLess(v[i].hash, v[i - 1].hash) =>
                      lres = Err("FileHashOrder", [hash |-> v[i].hash])
                 /\ v[i].hash = v[i - 1].hash =>
                      lres = Err("FileHashDuplicated", [hash |-> v[i].hash])
                 /\ lres.kind \in {"FileHashOrder", "FileHashDuplicated"}
        ELSE lres.kind \notin {"FileHashOrder", "FileHashDuplicated"}

\* A load stopped by a repeated hash, and one stopped by a lower hash, each
\* after it kept the entry before.
C6_Witness ==
  /\ lpc = "done"
  /\ lres.kind = "FileHashDuplicated"
  /\ Len(lhashes) = 1
  /\ lres.fields.hash = lhashes[1].hash
  /\ lres.fields.hash # Zeros32

\* C7 (manifest index bounds): with a whole, strictly ascending table of n
\* entries, load fails with ManifestIndexOutOfBounds, carrying the index,
\* exactly when the index is n or more; otherwise the manifest hash is the
\* hash of the entry at the index.
C7_ManifestIndexBounds ==
  /\ (lpc = "done" /\ TableComplete(disk) /\ Ascending(FmtTable(disk), FmtCount(disk))) =>
       /\ (lres.kind = "ManifestIndexOutOfBounds") = (FmtIndex(disk) >= FmtCount(disk))
       /\ FmtIndex(disk) >= FmtCount(disk) =>
            lres = Err("ManifestIndexOutOfBounds", [index |-> FmtIndex(disk)])
  /\ (lpc \in {"blobs", "manifest", "verify"} \/ (lpc = "done" /\ TableValid(disk))) =>
       /\ TableValid(disk)
       /\ manifest_hash = FmtEntry(disk, FmtIndex(disk)).hash
  /\ (lres.kind = "ManifestIndexOutOfBounds") =>
       /\ TableComplete(disk)
       /\ Ascending(FmtTable(disk), FmtCount(disk))

\* A load that refused an index just past a table of two entries.
C7_Witness ==
  /\ lpc = "done"
  /\ lres = Err("ManifestIndexOutOfBounds", [index |-> 2])
  /\ Len(lhashes) = 2

\* The bytes after the last declared blob.
FmtTrailing(f) == Len(f) - FmtBlobStart(f, FmtCount(f))

\* C8 (trailing bytes): a file that is valid up to its last declared blob
\* and goes on for k >= 1 bytes makes load fail with TrailingBytes whose
\* count is k; with k = 0 that error is not raised; and no file with bytes
\* after its declared blobs loads.
C8_TrailingBytes ==
  /\ (lpc = "done" /\ TableValid(disk) /\ AllBlobsGood(disk)) =>
       /\ FmtTrailing(disk) >= 1 =>
            /\ lres = Err("TrailingBytes", [trailing |-> FmtTrailing(disk)])
            /\ ~package.some
       /\ FmtTrailing(disk) = 0 => lres.kind # "TrailingBytes"
  /\ (lres.kind = "TrailingBytes") =>
       (TableValid(disk) /\ AllBlobsGood(disk) /\ FmtTrailing(disk) >= 1)
  /\ (lres = Ok) =>
       (TableValid(disk) /\ AllBlobsGood(disk) /\ FmtTrailing(disk) = 0)

\* A load that counted two bytes after the blobs of a two-entry package.
C8_Witness ==
  /\ lpc = "done"
  /\ lres = Err("TrailingBytes", [trailing |-> 2])
  /\ Cardinality(DOMAIN files) = 2

\* The file begins with the marker and ends before its header, its counted
\* entries or its declared blobs do.
Truncated(f) ==
  /\ BeginsWithMagic(f)
  /\ \/ ~TableComplete(f)
     \/ \E i \in 0..(FmtCount(f) - 1) : ~FmtBlobPresent(f, i)

\* A check that load makes before it comes to the missing bytes fails: an
\* entry held in full is not above its predecessor, or, the table being
\* whole, the manifest index is outside it or a blob held in full does not
\* hash to its declared hash.
FailsBeforeEnd(f) ==
  /\ HeaderComplete(f)
  /\ \/ ~Ascending(FmtTable(f), FmtEntriesPresent(f))
     \/ /\ TableComplete(f)
        /\ \/ FmtIndex(f) >= FmtCount(f)
           \/ \E i \in 0..(FmtCount(f) - 1) :
                FmtBlobPresent(f, i) /\ ~FmtBlobGood(f, i)

\* C9 to the letter (truncation): a file that begins with the marker and is
\* cut short makes load fail with an I/O error of kind UnexpectedEof.
C9_TruncationAlwaysEof ==
  (lpc = "done" /\ Truncated(disk)) =>
    /\ lres = UnexpectedEof
    /\ ~package.some

\* C9 (truncation), with the order of load's checks granted: a file that
\* begins with the marker and is cut short never loads; load fails with an
\* I/O error of kind UnexpectedEof, or, where a check it makes before the
\* missing bytes fails, with that check's error.
C9_Truncation ==
  (lpc = "done" /\ Truncated(disk)) =>
    /\ ~package.some
    /\ lres # Ok
    /\ (lres = UnexpectedEof) = ~FailsBeforeEnd(disk)
    /\ FailsBeforeEnd(disk) =>
         lres.kind \in {"FileHashOrder", "FileHashDuplicated",
                        "ManifestIndexOutOfBounds", "FileHashInvalid"}

\* A load that accepted a blob and found the next one cut short.
C9_Witness ==
  /\ lpc = "done"
  /\ lres = UnexpectedEof
  /\ Truncated(disk)
  /\ TableValid(disk)
  /\ li = 2
  /\ Len(disk) > pos

\* C10 (resolver, App): file returns the bytes stored under paths[path]
\* exactly when path is, as given, a key of the path table, and not-found
\* for every other path; the call leaves the Package as it was.
C10_AppLookup ==
  /\ [](lookup.called /\ package.manifest.kind = "App" =>
          IF lookup.path \in DOMAIN package.manifest.paths
          THEN /\ lookup.result.kind = "Some"
               /\ lookup.result.bytes = package.files[package.manifest.paths[lookup.path]]
          ELSE lookup.result = None)
  /\ [][lookup' # lookup => package' = package]_vars

\* A lookup of the key "a.js" in a loaded two-path App package returned
\* the non-empty bytes stored for it.
C10_Witness ==
  /\ lookup.called
  /\ package.manifest.kind = "App"
  /\ lookup.path = PathA
  /\ lookup.result.kind = "Some"
  /\ lookup.result.bytes # <<>>
  /\ DOMAIN package.manifest.paths = {PathA, PathB}

\* The number a string of decimal digits denotes.
RECURSIVE DecimalValue(_)
DecimalValue(ds) ==
  IF ds = <<>> THEN 0
  ELSE 10 * DecimalValue(SubSeq(ds, 1, Len(ds) - 1)) + (ds[Len(ds)] - 48)

\* path is the decimal spelling of i: digits only, after at most one '+'
\* (the spellings Rust's usize parser takes; "-1", "", " 1" and "x" are
\* none).
DenotesIndex(path, i) ==
  LET ds == IF path # <<>> /\ path[1] = 43 THEN SubSeq(path, 2, Len(path)) ELSE path
  IN  /\ ds # <<>>
      /\ \A k \in 1..Len(ds) : ds[k] \in 48..57
      /\ Len(StripZeros(ds)) <= Len(UsizeMaxDigits) \div 2
      /\ DecimalValue(ds) = i

\* C11 (resolver, Comic): on a Comic package of n pages, file returns the
\* JPEG type with the bytes stored under pages[i] exactly when the path
\* spells a non-negative integer i < n, and not-found, without panicking,
\* for every other path.
C11_ComicLookup ==
  (lookup.called /\ package.manifest.kind = "Comic") =>
    LET pages == package.manifest.pages
        hit == {i \in 0..(Len(pages) - 1) : DenotesIndex(lookup.path, i)}
    IN  IF hit # {}
        THEN \A i \in hit :
               lookup.result = Some("image/jpeg", package.files[pages[i + 1]])
        ELSE lookup.result = None

\* A lookup of "1" in a loaded Comic of two pages returned the second page,
\* which differs from the first.
C11_Witness ==
  /\ lookup.called
  /\ package.manifest.kind = "Comic"
  /\ Len(package.manifest.pages) = 2
  /\ lookup.path = <<49>>
  /\ lookup.result.kind = "Some"
  /\ lookup.result.bytes = package.files[package.manifest.pages[2]]
  /\ package.files[package.manifest.pages[1]] # lookup.result.bytes

\* C12 (lookup safety): every hash the manifest of a loaded Package refers
\* to is a key of its files map, so file ends with a blob or with
\* not-found and never with a failed unwrap.
C12_LookupSafety ==
  /\ package.some => Referenced(package.manifest) \subseteq DOMAIN package.files
  /\ lookup.called => lookup.result.kind \in {"Some", "None"}
  /\ (lpc = "done" /\ lres = Ok) => package.some

\* A lookup of "b" in a loaded App package whose manifest refers to two
\* hashes returned a blob.
C12_Witness ==
  /\ package.some
  /\ package.manifest.kind = "App"
  /\ Cardinality(Referenced(package.manifest)) = 2
  /\ lookup.called
  /\ lookup.path = PathB
  /\ lookup.result.kind = "Some"

\* The input a server file was taken from: its manifest, and whether it was
\* damaged.
ServerInputOf(f) ==
  CHOOSE x \in ServerInputs : x.bytes = f.bytes /\ x.present = f.present

\* C13 (server startup gate): run binds and serves only with both packages
\* loaded, the app package an App and the content's type the one the app
\* handles; otherwise it returns, never having served, the error of the
\* first of: load of the app package (naming the app path), load of the
\* content package (naming the content path), AppType, ContentType.
C13_StartupGate ==
  srvpc # "none" =>
    LET a == ServerInputOf(app_file)
        c == ServerInputOf(content_file)
        passes == /\ ~a.damaged
                  /\ ~c.damaged
                  /\ a.manifest.kind = "App"
                  /\ Ty(c.manifest) = a.manifest.handles
    IN  /\ (serving \/ srvpc \in {"bind", "serving"}) =>
             /\ passes
             /\ app = [files |-> app.files, manifest |-> a.manifest, some |-> TRUE]
             /\ content = [files |-> content.files, manifest |-> c.manifest, some |-> TRUE]
        /\ srvpc = "done" =>
             IF a.damaged
             THEN srvres.kind = "PackageLoad" /\ srvres.fields.path = AppPath
             ELSE IF c.damaged
             THEN srvres.kind = "PackageLoad" /\ srvres.fields.path = ContentPath
             ELSE IF a.manifest.kind # "App"
             THEN srvres = Err("AppType", [ty |-> Ty(a.manifest)])
             ELSE IF Ty(c.manifest) # a.manifest.handles
             THEN srvres = Err("ContentType", [content |-> Ty(c.manifest),
                                               handles |-> a.manifest.handles])
             ELSE srvres.kind \in {"Ok", "Runtime", "Serve"}
        /\ srvres.kind \in {"PackageLoad", "AppType", "ContentType"} =>
             (~serving /\ response = NoResponse)

\* Both files are damaged, and run returned the load error of the app path.
C13_Witness ==
  /\ srvpc = "done"
  /\ ServerInputOf(app_file).damaged
  /\ ServerInputOf(content_file).damaged
  /\ srvres.kind = "PackageLoad"
  /\ srvres.fields.path = AppPath
  /\ srvres.fields.source.kind = "Io"

\* The declared lengths are the sizes of the source files, and entries of
\* one hash, the manifest's among them, have one length (save writes one
\* blob for all of them).
LengthsActual ==
  /\ \A p \in DOMAIN hashes : p \in DOMAIN root /\ hashes[p].len = Len(root[p])
  /\ \A p, q \in DOMAIN hashes :
       hashes[p].hash = hashes[q].hash => hashes[p].len = hashes[q].len
  /\ \A p \in DOMAIN hashes :
       hashes[p].hash = Blake3(SerializeManifest(manifest)) =>
         hashes[p].len = Len(SerializeManifest(manifest))

\* The layout of the file a successful save wrote, and the offsets at which
\* load reads, for a marker of m bytes.
LayoutWith(m) ==
  /\ (spc = "done" /\ sres = Ok) =>
       /\ Len(MAGIC_BYTES) = m
       /\ SubSeq(disk, 1, m) = MAGIC_BYTES
       /\ FromLE(SubSeq(disk, m + 1, m + 8)) =
            Position(sorted, Blake3(SerializeManifest(manifest)))
       /\ FromLE(SubSeq(disk, m + 9, m + 16)) = Len(sorted)
       /\ \A k \in 1..Len(sorted) :
            SubSeq(disk, m + 16 + 40 * (k - 1) + 1, m + 16 + 40 * k) = EntryBytes(sorted[k])
       /\ LengthsActual =>
            Len(disk) = m + 16 + 40 * Len(sorted) + SumLens(sorted, Len(sorted))
  /\ (lpc = "index" /\ lres = Pending) => pos = m
  /\ (lpc = "count" /\ lres = Pending) => pos = m + 8
  /\ (lpc = "entries" /\ lhashes = <<>> /\ lres = Pending) => pos = m + 16

\* C14 as stated (byte layout): the marker is 9 bytes, the manifest index is
\* at offsets 9..17, the count at 17..25, the table starts at 25 with 40
\* bytes an entry, and the file is 9 + 16 + 40 n + the declared lengths
\* long.
C14_Layout9 == LayoutWith(9)

\* C14 as amended: the marker is 10 bytes, the manifest index is at offsets
\* 10..18, the count at 18..26, the table starts at 26 with 40 bytes an
\* entry, and the file is 10 + 16 + 40 n + the declared lengths long.
C14_Layout10 == LayoutWith(10)

\* A successful save of two files of different sizes, read back by load up
\* to the table.
C14_Witness ==
  /\ spc = "done"
  /\ sres = Ok
  /\ LengthsActual
  /\ Len(sorted) = 3
  /\ \E p, q \in DOMAIN hashes : hashes[p].len # hashes[q].len
  /\ lpc = "entries"
  /\ lhashes = <<>>

\* The file begins with the marker and holds all it declares.
CompleteFile(f) == BeginsWithMagic(f) /\ ~Truncated(f)

\* For a complete file, the violation of the earliest step of: index table
\* (entries in table order), manifest index bounds, blob hashes in table
\* order, trailing bytes, manifest deserialization, manifest consistency
\* (kind "Manifest": some hash of the table is not referred to, or one
\* referred to is not in the table); Ok without any.
EarliestViolation(f) ==
  LET v == FmtTable(f)
      n == Len(v)
  IN  IF \E i \in 2..n : NotAbove(v, i)
      THEN LET i == FirstNotAbove(v)
           IN  Err(IF v[i].hash = v[i - 1].hash THEN "FileHashDuplicated" ELSE "FileHashOrder",
                   [hash |-> v[i].hash])
      ELSE IF FmtIndex(f) >= n
      THEN Err("ManifestIndexOutOfBounds", [index |-> FmtIndex(f)])
      ELSE IF \E i \in 0..(n - 1) : ~FmtBlobGood(f, i)
      THEN LET i == CHOOSE k \in 0..(n - 1) :
                      ~FmtBlobGood(f, k) /\ \A j \in 0..(k - 1) : FmtBlobGood(f, j)
           IN  Err("FileHashInvalid",
                   [expected |-> v[i + 1].hash, actual |-> Blake3(FmtBlob(f, i))])
      ELSE IF FmtTrailing(f) > 0
      THEN Err("TrailingBytes", [trailing |-> FmtTrailing(f)])
      ELSE LET d == DeserializeManifest(FmtBlob(f, FmtIndex(f)))
           IN  IF ~d.ok THEN Err("DeserializeManifest", <<>>)
               ELSE IF {v[i].hash : i \in 1..n} #
                         Referenced(d.manifest) \cup {v[FmtIndex(f) + 1].hash}
               THEN Err("Manifest", <<>>)
               ELSE Ok

\* C15 (check order): load reports the violation of the earliest step in
\* the order magic, index table, manifest index bounds, blob hashes,
\* trailing bytes, deserialization, consistency, and only that one; it reads
\* no blob before the whole table is validated; a failed load returns no
\* Package.
C15_CheckOrder ==
  /\ (lpc = "done" /\ ~BeginsWithMagic(disk) /\ Len(disk) >= Len(MAGIC_BYTES)) =>
       lres.kind = "MagicBytes"
  /\ (lpc = "done" /\ CompleteFile(disk)) =>
       LET e == EarliestViolation(disk)
       IN  IF e.kind = "Manifest"
           THEN lres.kind \in {"ManifestExtraFiles", "ManifestMissingFiles"}
           ELSE lres = e
  /\ (pos > TableEnd(hash_count) \/ li > 1 \/ files # <<>>) => TableValid(disk)
  /\ (lpc = "done" /\ lres # Ok) => ~package.some

\* Load reported two trailing bytes of a file whose manifest blob is no
\* manifest.
C15_Witness ==
  /\ lpc = "done"
  /\ lres = Err("TrailingBytes", [trailing |-> 2])
  /\ TableValid(disk)
  /\ AllBlobsGood(disk)
  /\ ~DeserializeManifest(FmtBlob(disk, FmtIndex(disk))).ok

\* What save was given to write: the caller's paths and, as the empty path,
\* the manifest.
ManifestSource == <<>>

Sources == DOMAIN hashes \cup {ManifestSource}

EntryOf(src) ==
  IF src = ManifestSource
  THEN Entry(Blake3(SerializeManifest(manifest)), Len(SerializeManifest(manifest)))
  ELSE hashes[src]

ContentOf(src) ==
  IF src = ManifestSource THEN SerializeManifest(manifest) ELSE root[src]

\* The file is the table of the sources in the order asg, the manifest at
\* the recorded index, followed by the contents of the sources in that
\* order.
WrittenAs(f, asg) ==
  /\ TableComplete(f)
  /\ FmtCount(f) = Len(asg)
  /\ FmtIndex(f) < FmtCount(f)
  /\ asg[FmtIndex(f) + 1] = ManifestSource
  /\ \A k \in 1..Len(asg) :
       /\ FmtEntry(f, k - 1) = EntryOf(asg[k])
       /\ asg[k] = ManifestSource \/ asg[k] \in DOMAIN root
  /\ f = SubSeq(f, 1, TableEnd(Len(asg)))
           \o Flatten([k \in 1..Len(asg) |->
                         IF asg[k] = ManifestSource \/ asg[k] \in DOMAIN root
                         THEN ContentOf(asg[k]) ELSE <<>>])

\* C16 as stated (manifest position): in every file a save wrote, the
\* manifest index is inside the table, the entry there is the manifest's
\* hash and length and the blob there its bytes, and every other blob is
\* the content of the source file of the entry at its position.
C16_ManifestPosition ==
  (spc = "done" /\ lpc = "magic" /\ sres = Ok) =>
    \E asg \in Perms(Sources) : WrittenAs(disk, asg)

\* No path is declared with the manifest's hash unless its file holds the
\* manifest's bytes and its declared length is theirs.
ManifestHashOwn ==
  \A p \in DOMAIN hashes :
    hashes[p].hash = Blake3(SerializeManifest(manifest)) =>
      /\ hashes[p].len = Len(SerializeManifest(manifest))
      /\ p \in DOMAIN root
      /\ root[p] = SerializeManifest(manifest)

\* Paths declared with one hash name source files of one content.
SameHashSameContent ==
  \A p, q \in DOMAIN hashes :
    hashes[p].hash = hashes[q].hash =>
      (p \in DOMAIN root /\ q \in DOMAIN root /\ root[p] = root[q])

\* C16 as amended: the same, for a save whose paths of one declared hash
\* have source files of one content, and where a path declared with the
\* manifest's hash has the manifest's length and bytes.
C16_ManifestPositionAgreeing ==
  (spc = "done" /\ lpc = "magic" /\ sres = Ok /\ SameHashSameContent /\ ManifestHashOwn) =>
    \E asg \in Perms(Sources) : WrittenAs(disk, asg)

\* A successful save of two files of different contents and a manifest
\* whose entry is neither the first nor the last.
C16_Witness ==
  /\ spc = "done"
  /\ lpc = "magic"
  /\ sres = Ok
  /\ SameHashSameContent
  /\ ManifestHashOwn
  /\ Len(sorted) = 3
  /\ FmtIndex(disk) = 1
  /\ root[PathA] # root[PathB]

\* The outcome the claim requires of a save under the failure the
\* environment imposes.
Surfaced ==
  /\ sres = Ok =>
       /\ SaveRun(hashes, order, manifest, root).res = Ok
       /\ disk = SaveRun(hashes, order, manifest, root).bytes
  /\ outfail = "create" => sres.kind = "Io"
  /\ (outfail = "full" /\ outcap < Len(SaveRun(hashes, order, manifest, root).bytes)) =>
       sres.kind \in {"Io", "FileIo", "IoCopy"}
  /\ sres.kind = "FileIo" =>
       /\ sres.fields.path \in DOMAIN hashes
       /\ sres.fields.path \notin DOMAIN root
       /\ sres.fields.path = BlobPath(hashes, order, sorted[si])
  /\ sres.kind = "IoCopy" =>
       /\ outfail \in {"copy", "full"}
       /\ sres.fields.path \in DOMAIN hashes \cap DOMAIN root
       /\ sres.fields.path = BlobPath(hashes, order, sorted[si])

\* C17 (writer error surfacing): when save returns success every byte of
\* the package is in the output file; a failure creating or writing the
\* output, the write of the last buffered bytes included, makes save
\* return an I/O error; a failure opening or copying a source file makes
\* save return the error that names that file's path.
C17_ErrorSurfacing ==
  (spc = "done" /\ lpc = "magic") => Surfaced

====
